---- MODULE Spec2Model ----
(***************************************************************************)
(* BYWOB Online Voting (src/streamlit_app.py).                             *)
(*                                                                         *)
(* The persistent state is the SQLite database election.db (tables meta,   *)
(* voters, candidates, votes), shared by every browser session.  Each      *)
(* session runs the script in its own thread with its own connection, so   *)
(* the unit of atomicity is one execute+commit; the handlers of different  *)
(* sessions interleave between commits.  The wall clock (now_cet) is read  *)
(* anew at every call.                                                     *)
(*                                                                         *)
(* Time is counted in clock seconds; the two durations of the program are  *)
(* scaled down (a minute is SecondsPerMinute ticks, the two-hour default   *)
(* length of an election is TwoHours ticks) keeping TwoHours larger than a *)
(* minute.  A text cell holding a time is <<>> when it is the empty        *)
(* string and <<t>> when it holds the ISO text of instant t.               *)
(***************************************************************************)
EXTENDS Integers, Sequences, FiniteSets, TLC

\* ---------------------------------------------------------------- bounds
\* The clock is explored up to MaxTime, a run holds at most MaxAdminOps admin
\* commands, and a commit starts only while the rows appended so far, with
\* the rows of the running commits, stay within MaxVotes rows.
MaxTime == 3
MaxAdminOps == 2
MaxVotes == 2

\* Program constants, scaled: a minute, the two hours of line 516 and the six
\* random characters of a token.
SecondsPerMinute == 2
TwoHours == 3
TokenLen == 1

\* ------------------------------------------------------------- universes
Sessions == {"s1", "s2"}
Positions == {"P1", "P2"}
Names == {"X", "Y"}
\* Minute-granular instants the admin can pick in the date/time inputs.
ScheduleTimes == {0, 2}

\* A token is a string, modelled as a sequence of one-character strings.
\* What a voter types into the token input (line 380): nothing, a token in
\* lower case with a blank after it, another token.
TypedTokens == { <<>>, <<"a", " ">>, <<"B">> }
\* What the admin types into the token cell of a voter row (<<>>: left empty).
AdminTokens == { <<>>, <<"A">> }
\* The voters CSV files the admin uploads: the token column, row by row.
VoterCsvFiles == { << <<"A">> >>, << <<"A">>, <<"A">> >> }
\* What the admin types into the token cell when case and blanks vary.
EditorTokens == { <<>>, <<"A">>, <<"a">>, <<" ", "A">> }
\* Voters CSV files whose token column varies in case.
CaseCsvFiles == { << <<"A">>, <<"a">> >>, << <<"A">>, <<"A", " ">> >> }
\* The numbers of tokens asked of the generator (number_input, min_value=1)
\* and the prefix typed beside it.
TokenCounts == {1, 2}
\* The candidates CSV files the admin uploads, as their (position, candidate)
\* lines; the second repeats a line.
CandCsvFiles ==
    { << [position |-> "P1", candidate |-> "Y"] >>,
      << [position |-> "P2", candidate |-> "Y"],
         [position |-> "P1", candidate |-> "X"],
         [position |-> "P2", candidate |-> "Y"] >> }
pref == <<"G">>
\* The prefix of generated tokens and the alphabet of their random part
\* (string.ascii_uppercase + string.digits, cut down to two characters).
auto_pref == <<"G">>
alpha == {"0", "1"}

\* ------------------------------------------------------- string helpers
\* str.upper() / SQL UPPER() on the characters of the model's alphabet.
UpperChar(c) ==
    CASE c = "a" -> "A"
      [] c = "b" -> "B"
      [] OTHER -> c

Upper(s) == [i \in DOMAIN s |-> UpperChar(s[i])]

RECURSIVE LStrip(_)
LStrip(s) ==
    IF s = <<>> THEN <<>>
    ELSE IF Head(s) = " " THEN LStrip(Tail(s)) ELSE s

RECURSIVE RStrip(_)
RStrip(s) ==
    IF s = <<>> THEN <<>>
    ELSE IF s[Len(s)] = " " THEN RStrip(SubSeq(s, 1, Len(s) - 1)) ELSE s

\* str.strip() / SQL TRIM(): drop the blanks at both ends.
Strip(s) == LStrip(RStrip(s))

\* ----------------------------------------------------------------- state
VARIABLES
    now,         \* the wall clock read by now_cet()
    meta,        \* table meta: status, start_cet, end_cet, published
    voters,      \* table voters, in rowid order: token, used, used_at
    candidates,  \* table candidates, in rowid order: position, candidate
    votes,       \* table votes, in rowid order (token and ballot are ghosts)
    ballot,      \* st.session_state.ballot of every session
    pc,          \* "form": no handler running; "commit": inside lines 433-435
    pending,     \* selections the running commit loop has still to append
    last,        \* ghost: the latest voter interaction and what it showed
    bid,         \* ghost: the number of the ballot a session commits
    nballots,    \* number of ballots whose commit loop has started
    adminOps,    \* number of admin commands done so far
    archives,    \* the tables votes_archive_<ts>: records of ts and rows
    new_tokens,  \* the list the latest generate_tokens() call returned
    appended     \* ghost: every row append_vote ever inserted

vars == <<now, meta, voters, candidates, votes, ballot, pc, pending, last,
          bid, nballots, adminOps, archives, new_tokens, appended>>

\* What the voter handlers and the admin commands on meta and on the editors
\* leave alone.
adminVars == <<archives, new_tokens, appended>>

\* st.session_state.ballot = {"ready": False}
NoBallot == [ready |-> FALSE, token |-> <<>>, pos_to_cands |-> <<>>]

\* st.radio(..., index=None) answers None until an option is picked.
None == "<None>"

\* ------------------------------------------------------------------ time
FloorMinute(t) == t - (t % SecondsPerMinute)

\* datetime.fromisoformat of a text cell; None (<<>>) for the empty string.
fromisoformat(cell) == cell

isoformat(t) == <<t>>

\* ------------------------------------------------------------------- meta
defaults ==
    [status |-> "idle", start_cet |-> <<>>, end_cet |-> <<>>,
     published |-> "FALSE"]

\* is_voting_open() without the write of line 186.
is_voting_open_nowrite(m, t) ==
    LET sdt == fromisoformat(m.start_cet)
        edt == fromisoformat(m.end_cet)
    IN  IF m.status # "ongoing" THEN [ret |-> FALSE, meta |-> m]
        ELSE IF sdt # <<>> /\ t < sdt[1] THEN [ret |-> FALSE, meta |-> m]
        ELSE IF edt # <<>> /\ t > edt[1] THEN [ret |-> FALSE, meta |-> m]
        ELSE [ret |-> TRUE, meta |-> m]

\* is_voting_open() with the end check of line 185 written as now >= end.
is_voting_open_strict(m, t) ==
    LET sdt == fromisoformat(m.start_cet)
        edt == fromisoformat(m.end_cet)
    IN  IF m.status # "ongoing" THEN [ret |-> FALSE, meta |-> m]
        ELSE IF sdt # <<>> /\ t < sdt[1] THEN [ret |-> FALSE, meta |-> m]
        ELSE IF edt # <<>> /\ t >= edt[1]
             THEN [ret |-> FALSE, meta |-> [m EXCEPT !.status = "ended"]]
        ELSE [ret |-> TRUE, meta |-> m]

\* is_voting_open() with the end check of line 185 ahead of the status check
\* of line 178: a passed end closes the election whatever its status.
is_voting_open_close_any(m, t) ==
    LET sdt == fromisoformat(m.start_cet)
        edt == fromisoformat(m.end_cet)
    IN  IF edt # <<>> /\ t > edt[1]
        THEN [ret |-> FALSE, meta |-> [m EXCEPT !.status = "ended"]]
        ELSE IF m.status # "ongoing" THEN [ret |-> FALSE, meta |-> m]
        ELSE IF sdt # <<>> /\ t < sdt[1] THEN [ret |-> FALSE, meta |-> m]
        ELSE [ret |-> TRUE, meta |-> m]

\* is_voting_open() on meta record m with the clock reading t: the value it
\* returns and the meta record it leaves behind.
is_voting_open(m, t) ==
    LET sdt == fromisoformat(m.start_cet)
        edt == fromisoformat(m.end_cet)
    IN  IF m.status # "ongoing" THEN [ret |-> FALSE, meta |-> m]
        ELSE IF sdt # <<>> /\ t < sdt[1] THEN [ret |-> FALSE, meta |-> m]
        ELSE IF edt # <<>> /\ t > edt[1]
             THEN [ret |-> FALSE, meta |-> [m EXCEPT !.status = "ended"]]
        ELSE [ret |-> TRUE, meta |-> m]

\* ---------------------------------------------------------------- tables
\* Indexes of the voter rows the Proceed lookup of line 391 selects.
MatchingRows(vs, token) ==
    {i \in DOMAIN vs : Upper(Strip(vs[i].token)) = Upper(Strip(token))}

Min(S) == CHOOSE x \in S : \A y \in S : x <= y

\* mark_token_used with the UPDATE writing used=1 only.
mark_token_used_noat(vs, token, t) ==
    [i \in DOMAIN vs |->
        IF Upper(Strip(vs[i].token)) = Upper(Strip(token))
        THEN [vs[i] EXCEPT !.used = TRUE]
        ELSE vs[i]]

\* mark_token_used with the UPDATE missing its WHERE clause.
mark_token_used_all(vs, token, t) ==
    [i \in DOMAIN vs |-> [vs[i] EXCEPT !.used = TRUE, !.used_at = isoformat(t)]]

\* mark_token_used: UPDATE voters SET used=1, used_at=? WHERE
\* UPPER(TRIM(token)) = UPPER(TRIM(?))
mark_token_used(vs, token, t) ==
    [i \in DOMAIN vs |->
        IF Upper(Strip(vs[i].token)) = Upper(Strip(token))
        THEN [vs[i] EXCEPT !.used = TRUE, !.used_at = isoformat(t)]
        ELSE vs[i]]

\* cands["position"].unique(): the positions in order of first appearance.
RECURSIVE UniquePositions(_)
UniquePositions(cs) ==
    IF cs = <<>> THEN <<>>
    ELSE LET init == UniquePositions(SubSeq(cs, 1, Len(cs) - 1))
             p == cs[Len(cs)].position
         IN  IF \E i \in DOMAIN init : init[i] = p THEN init
             ELSE Append(init, p)

\* cands[cands["position"]==p]["candidate"].tolist()
RECURSIVE CandidatesOf(_, _)
CandidatesOf(cs, p) ==
    IF cs = <<>> THEN <<>>
    ELSE IF Head(cs).position = p
         THEN <<Head(cs).candidate>> \o CandidatesOf(Tail(cs), p)
         ELSE CandidatesOf(Tail(cs), p)

\* The dict pos_to_cands of lines 404-407, as a sequence of its items.
PosToCands(cs) ==
    LET ps == UniquePositions(cs)
    IN  [i \in DOMAIN ps |->
            [position |-> ps[i], options |-> CandidatesOf(cs, ps[i])]]

Range(f) == {f[i] : i \in DOMAIN f}

\* The selections a voter can send with the form built from snapshot ptc.
Selections(ptc) ==
    {sel \in [DOMAIN ptc -> Names \cup {None}] :
        \A i \in DOMAIN ptc : sel[i] \in Range(ptc[i].options) \cup {None}}

\* groupby(["position","candidate"]).size() with every group counted once,
\* whatever its size.
GroupSizes_once(vt) ==
    [pr \in {<<vt[i].position, vt[i].candidate>> : i \in DOMAIN vt} |-> 1]

\* groupby(["position","candidate"]).size(): one pass over the rows, opening
\* a group at the first row of a pair and adding one at every later row.
RECURSIVE GroupSizes(_)
GroupSizes(vt) ==
    IF vt = <<>> THEN <<>>
    ELSE LET g == GroupSizes(SubSeq(vt, 1, Len(vt) - 1))
             r == vt[Len(vt)]
             k == <<r.position, r.candidate>>
         IN  IF k \in DOMAIN g THEN [g EXCEPT ![k] = g[k] + 1]
             ELSE [x \in DOMAIN g \cup {k} |-> IF x = k THEN 1 ELSE g[x]]

\* results_df(): the frame of (position, candidate, votes) rows, as the
\* function from the (position, candidate) of a row to its votes (the order
\* of the rows, which sort_values settles, is left out).
results_df(vt) == GroupSizes(vt)

\* ------------------------------------------------------- what a run shows
\* The record of a voter interaction: the session, the handler, the answer
\* shown, the positions the message names, and whether the is_voting_open()
\* of the run wrote status = ended (line 186).
Shown(s, op, answer, named, autoclosed) ==
    [sid |-> s, op |-> op, answer |-> answer, named |-> named,
     autoclosed |-> autoclosed]

NoInteraction == Shown("", "", "", {}, FALSE)

\* ----------------------------------------------------------------- Init
\* A voters row as every INSERT of the program writes it: used=0, used_at=''.
NewVoter(tok) == [token |-> tok, used |-> FALSE, used_at |-> <<>>]

Cand(p, c) == [position |-> p, candidate |-> c]

\* election.db as the script finds it when it starts (lines 124-150, CREATE
\* TABLE IF NOT EXISTS): created empty, or holding the voters and candidates
\* an admin entered in an earlier run (AddVoter and AddCandidate below build
\* each of these tables from the empty ones).
InitTables ==
    { [voters |-> <<>>, candidates |-> <<>>],
      [voters |-> <<NewVoter(<<"A">>)>>,
       candidates |-> <<Cand("P1", "X")>>],
      [voters |-> <<NewVoter(<<"A">>)>>,
       candidates |-> <<Cand("P1", "X"), Cand("P1", "Y"), Cand("P2", "X")>>] }

\* meta is filled with the defaults (lines 162-173); every session starts
\* with {"ready": False} (line 364).
Init ==
    /\ now = 0
    /\ meta = defaults
    /\ \E db \in InitTables :
          /\ voters = db.voters
          /\ candidates = db.candidates
    /\ votes = <<>>
    /\ ballot = [s \in Sessions |-> NoBallot]
    /\ pc = [s \in Sessions |-> "form"]
    /\ pending = [s \in Sessions |-> <<>>]
    /\ last = NoInteraction
    /\ bid = [s \in Sessions |-> 0]
    /\ nballots = 0
    /\ adminOps = 0
    /\ archives = {}
    /\ new_tokens = <<>>
    /\ appended = {}

\* ---------------------------------------------------------------- clock
Tick ==
    /\ now < MaxTime
    /\ now' = now + 1
    /\ UNCHANGED <<meta, voters, candidates, votes, ballot, pc, pending, last,
                   bid, nballots, adminOps>>
    /\ UNCHANGED adminVars

\* -------------------------------------------------------- voter sessions
\* A script run of a voter session with no button pressed (page load or the
\* 30 s auto-refresh): line 367 evaluates is_voting_open().
Rerun(s) ==
    /\ pc[s] = "form"
    /\ LET r == is_voting_open(meta, now)
       IN  /\ meta' = r.meta
           /\ last' = Shown(s, "Rerun", IF r.ret THEN "open" ELSE "closed",
                             {}, r.meta # meta)
    /\ UNCHANGED <<now, voters, candidates, votes, ballot, pc, pending,
                   bid, nballots, adminOps>>
    /\ UNCHANGED adminVars

\* The Proceed handler with the token looked up before the window check.
ProceedAnswer_lookup_first(open, token) ==
    LET rows == MatchingRows(voters, token)
    IN  IF token = <<>> THEN "TokenMissing"
        ELSE IF rows = {} THEN "InvalidToken"
        ELSE IF voters[Min(rows)].used THEN "TokenAlreadyUsed"
        ELSE IF ~open THEN "VotingClosed"
        ELSE IF candidates = <<>> THEN "NoCandidatesConfigured"
        ELSE "BallotReady"

\* What the Proceed handler (lines 381-413) answers for the typed token,
\* given the value is_voting_open() returned.
ProceedAnswer(open, token) ==
    LET rows == MatchingRows(voters, token)
    IN  IF token = <<>> THEN "TokenMissing"
        ELSE IF ~open THEN "VotingClosed"
        ELSE IF rows = {} THEN "InvalidToken"
        ELSE IF voters[Min(rows)].used THEN "TokenAlreadyUsed"
        ELSE IF candidates = <<>> THEN "NoCandidatesConfigured"
        ELSE "BallotReady"

\* The Proceed button (lines 381-413), in a session showing the token input.
\* The run starts with the is_voting_open() of line 367.
Proceed(s, token) ==
    /\ pc[s] = "form"
    /\ ~ballot[s].ready
    /\ LET r == is_voting_open(meta, now)
           answer == ProceedAnswer(r.ret, token)
       IN  /\ meta' = r.meta
           /\ last' = Shown(s, "Proceed", answer, {}, r.meta # meta)
           /\ ballot' = IF answer = "BallotReady"
                        THEN [ballot EXCEPT ![s] =
                                [ready |-> TRUE, token |-> Strip(token),
                                 pos_to_cands |-> PosToCands(candidates)]]
                        ELSE ballot
    /\ UNCHANGED <<now, voters, candidates, votes, pc, pending, bid, nballots,
                   adminOps>>
    /\ UNCHANGED adminVars

\* The rows the running commit loops of the sessions S have still to append.
RECURSIVE PendingRows(_)
PendingRows(S) ==
    IF S = {} THEN 0
    ELSE LET s == CHOOSE x \in S : TRUE
         IN  Len(pending[s]) + PendingRows(S \ {s})

\* The items of a selection with the positions read from the candidates
\* table at Submit instead of the snapshot of the form.
Items_reload(ptc, sel) ==
    LET cur == PosToCands(candidates)
    IN  [i \in DOMAIN cur |->
            [position |-> cur[i].position,
             candidate |-> IF i \in DOMAIN sel THEN sel[i]
                           ELSE cur[i].options[1]]]

\* The (position, candidate) items of a selection, in the order of the form.
Items(ptc, sel) ==
    [i \in DOMAIN ptc |-> [position |-> ptc[i].position, candidate |-> sel[i]]]

\* The row append_vote inserts for item it at clock reading t; token and bid
\* (the ballot's token and its number among the ballots of the run) are
\* ghost columns that the table does not hold.
VoteRow(it, t, token, b) ==
    [position |-> it.position, candidate |-> it.candidate,
     timestamp |-> isoformat(t), token |-> token, bid |-> b]

\* The positions the error of line 431 names: its text is fixed and names
\* none, whatever is missing.
IncompleteBallotNames(ptc, sel) == {}

\* The Submit All Votes button (lines 428-432) with the selections sel: an
\* unselected position answers the error of line 431, otherwise the commit
\* loop starts.  The run starts with the is_voting_open() of line 367.
Submit(s, sel) ==
    /\ pc[s] = "form"
    /\ ballot[s].ready
    /\ sel \in Selections(ballot[s].pos_to_cands)
    /\ meta' = is_voting_open(meta, now).meta
    /\ IF None \in Range(sel)
       THEN /\ last' = Shown(s, "Submit", "IncompleteBallot",
                             IncompleteBallotNames(ballot[s].pos_to_cands, sel),
                             meta' # meta)
            /\ UNCHANGED <<pc, pending, bid, nballots>>
       ELSE /\ Cardinality(appended) + PendingRows(Sessions) + Len(sel)
                 <= MaxVotes
            /\ pc' = [pc EXCEPT ![s] = "commit"]
            /\ pending' = [pending EXCEPT ![s] =
                              Items(ballot[s].pos_to_cands, sel)]
            /\ nballots' = nballots + 1
            /\ bid' = [bid EXCEPT ![s] = nballots + 1]
            /\ last' = Shown(s, "Submit", "Committing", {}, meta' # meta)
    /\ UNCHANGED <<now, voters, candidates, votes, ballot, adminOps>>
    /\ UNCHANGED adminVars

\* The button pressed with any selections the form allows.
SubmitAllVotes(s) ==
    \E sel \in Selections(ballot[s].pos_to_cands) : Submit(s, sel)

\* append_vote (lines 223-228) for the next selection of the loop of line
\* 433: the row carries the clock reading of this call.
AppendVote(s) ==
    /\ pc[s] = "commit"
    /\ pending[s] # <<>>
    /\ votes' = Append(votes,
                    VoteRow(Head(pending[s]), now, ballot[s].token, bid[s]))
    /\ pending' = [pending EXCEPT ![s] = Tail(pending[s])]
    /\ UNCHANGED <<now, meta, voters, candidates, ballot, pc, last, bid, nballots,
                   adminOps>>
    /\ appended' = appended \cup
         {VoteRow(Head(pending[s]), now, ballot[s].token, bid[s])}
    /\ UNCHANGED <<archives, new_tokens>>

\* Lines 435-438 without the reset of line 437: the ballot state survives
\* the accepted submission.
MarkTokenUsed_keep_ballot(s) ==
    /\ pc[s] = "commit"
    /\ pending[s] = <<>>
    /\ voters' = mark_token_used(voters, ballot[s].token, now)
    /\ pc' = [pc EXCEPT ![s] = "form"]
    /\ meta' = is_voting_open(meta, now).meta
    /\ last' = Shown(s, "Submit", "Accepted", {}, meta' # meta)
    /\ UNCHANGED <<now, candidates, votes, ballot, pending, bid, nballots,
                   adminOps>>
    /\ UNCHANGED adminVars

\* Lines 435-438 run without waiting for the loop of line 433: the rows not
\* yet appended are dropped.
MarkTokenUsed_early(s) ==
    /\ pc[s] = "commit"
    /\ voters' = mark_token_used(voters, ballot[s].token, now)
    /\ ballot' = [ballot EXCEPT ![s] = NoBallot]
    /\ pc' = [pc EXCEPT ![s] = "form"]
    /\ pending' = [pending EXCEPT ![s] = <<>>]
    /\ meta' = is_voting_open(meta, now).meta
    /\ last' = Shown(s, "Submit", "Accepted", {}, meta' # meta)
    /\ UNCHANGED <<now, candidates, votes, bid, nballots, adminOps>>
    /\ UNCHANGED adminVars

\* Lines 435-438 once the loop is over: mark_token_used, the ballot state is
\* reset and st.rerun() starts a run that evaluates line 367.
MarkTokenUsed(s) ==
    /\ pc[s] = "commit"
    /\ pending[s] = <<>>
    /\ voters' = mark_token_used(voters, ballot[s].token, now)
    /\ ballot' = [ballot EXCEPT ![s] = NoBallot]
    /\ pc' = [pc EXCEPT ![s] = "form"]
    /\ meta' = is_voting_open(meta, now).meta
    /\ last' = Shown(s, "Submit", "Accepted", {}, meta' # meta)
    /\ UNCHANGED <<now, candidates, votes, pending, bid, nballots, adminOps>>
    /\ UNCHANGED adminVars

\* Line 435 raises (a storage error in the UPDATE of mark_token_used) once
\* the loop is over: nothing catches it, the run ends with the appended rows
\* committed, and lines 436-438 do not run, so the session keeps its ballot.
MarkTokenUsedFails(s) ==
    /\ pc[s] = "commit"
    /\ pending[s] = <<>>
    /\ pc' = [pc EXCEPT ![s] = "form"]
    /\ last' = Shown(s, "Submit", "StorageError", {}, FALSE)
    /\ UNCHANGED <<now, meta, voters, candidates, votes, ballot, pending, bid,
                   nballots, adminOps>>
    /\ UNCHANGED adminVars

\* ------------------------------------------------------------- the admin
\* token_exists(tok) with exclude_id None (lines 272-283):
\* SELECT 1 FROM voters WHERE TRIM(token)=TRIM(?)
token_exists(vs, tok) ==
    LET t == Strip(tok)
    IN  IF t = <<>> THEN FALSE
        ELSE \E i \in DOMAIN vs : Strip(vs[i].token) = Strip(t)

\* prefix + "-" + TokenLen characters of alpha: every draw of line 288.
RECURSIVE RandomParts(_)
RandomParts(n) ==
    IF n = 0 THEN {<<>>}
    ELSE {<<c>> \o r : c \in alpha, r \in RandomParts(n - 1)}

RandomTokens(prefix) == {prefix \o <<"-">> \o r : r \in RandomParts(TokenLen)}

\* create_unique_token (lines 285-290): the tokens the loop can return; it
\* never returns when every draw exists already.
create_unique_token(vs, prefix) ==
    {tok \in RandomTokens(prefix) : ~token_exists(vs, tok)}

\* The UNIQUE constraint on voters.token: some row holds exactly tok.
TokenIn(vs, tok) == \E i \in DOMAIN vs : vs[i].token = tok

\* generate_tokens(n, prefix) (lines 230-250) on voters table vs, out being
\* the list built so far: every pair of table and returned list the draws
\* can give.  A draw the table holds raises IntegrityError; the handler draws
\* once more, inserts with OR IGNORE and appends the token whatever happened.
RECURSIVE generate_tokens(_, _, _, _)
generate_tokens(n, prefix, vs, out) ==
    IF n = 0 THEN {[voters |-> vs, new_tokens |-> out]}
    ELSE UNION {
           IF ~TokenIn(vs, t1)
           THEN generate_tokens(n - 1, prefix, Append(vs, NewVoter(t1)),
                                Append(out, t1))
           ELSE UNION {
                  generate_tokens(n - 1, prefix,
                                  IF TokenIn(vs, t2) THEN vs
                                  ELSE Append(vs, NewVoter(t2)),
                                  Append(out, t2)) :
                  t2 \in RandomTokens(prefix)} :
           t1 \in RandomTokens(prefix)}

\* The Generate button (lines 556-560).
GenerateTokens(n) ==
    /\ adminOps < MaxAdminOps
    /\ adminOps' = adminOps + 1
    /\ \E r \in generate_tokens(n, pref, voters, <<>>) :
          /\ voters' = r.voters
          /\ new_tokens' = r.new_tokens
    /\ UNCHANGED <<now, meta, candidates, votes, ballot, pc, pending, last,
                   bid, nballots, archives, appended>>

\* "Save changes" of the voters editor with one row added at the bottom, its
\* name filled in and its token cell holding tok (lines 740-754); the rows
\* shown are written back as they are (lines 727-738).
AddVoter(tok) ==
    /\ adminOps < MaxAdminOps
    /\ adminOps' = adminOps + 1
    /\ LET t == Strip(tok)
       IN  \E new \in IF t = <<>> \/ token_exists(voters, t)
                      THEN create_unique_token(voters, auto_pref)
                      ELSE {t} :
               voters' = Append(voters, NewVoter(new))
    /\ UNCHANGED <<now, meta, candidates, votes, ballot, pc, pending, last,
                   bid, nballots>>
    /\ UNCHANGED adminVars

\* The loop of lines 678-690 over the rows of the uploaded file: every
\* voters table it can build on top of vs.
RECURSIVE CsvImport(_, _, _)
CsvImport(rows, vs, seen) ==
    IF rows = <<>> THEN {vs}
    ELSE LET t == Strip(Head(rows))
             toks == IF t = <<>> \/ t \in seen \/ token_exists(vs, t)
                     THEN create_unique_token(vs, auto_pref)
                     ELSE {t}
         IN  UNION {CsvImport(Tail(rows), Append(vs, NewVoter(tok)),
                              seen \cup {tok}) : tok \in toks}

\* Upload of a voters CSV (lines 663-694): the table is emptied and refilled.
VotersCsvReplace(csv) ==
    /\ adminOps < MaxAdminOps
    /\ adminOps' = adminOps + 1
    /\ voters' \in CsvImport(csv, <<>>, {})
    /\ UNCHANGED <<now, meta, candidates, votes, ballot, pc, pending, last,
                   bid, nballots>>
    /\ UNCHANGED adminVars

\* add_candidate (lines 321-326) from "Save candidate changes" with one row
\* added: INSERT OR IGNORE under the unique index on (position, candidate).
AddCandidate(p, c) ==
    /\ adminOps < MaxAdminOps
    /\ adminOps' = adminOps + 1
    /\ candidates' =
         IF \E i \in DOMAIN candidates : candidates[i] = Cand(p, c)
         THEN candidates
         ELSE Append(candidates, Cand(p, c))
    /\ UNCHANGED <<now, meta, voters, votes, ballot, pc, pending, last,
                   bid, nballots>>
    /\ UNCHANGED adminVars

\* "Save candidate changes" that carries the edit of row i into the vote
\* rows cast for it.
UpdateCandidate_cascade(i, p, c) ==
    /\ adminOps < MaxAdminOps
    /\ adminOps' = adminOps + 1
    /\ i \in DOMAIN candidates
    /\ candidates' =
         IF \E j \in DOMAIN candidates \ {i} : candidates[j] = Cand(p, c)
         THEN candidates
         ELSE [candidates EXCEPT ![i] = Cand(p, c)]
    /\ votes' = [k \in DOMAIN votes |->
                   IF /\ votes[k].position = candidates[i].position
                      /\ votes[k].candidate = candidates[i].candidate
                   THEN [votes[k] EXCEPT !.position = candidates'[i].position,
                                         !.candidate = candidates'[i].candidate]
                   ELSE votes[k]]
    /\ UNCHANGED <<now, meta, voters, ballot, pc, pending, last,
                   bid, nballots>>
    /\ UNCHANGED adminVars

\* "Save candidate changes" with the cells of row i edited to (p, c)
\* (lines 618-627): update_candidate rewrites every row shown; the UPDATE of
\* row i raises IntegrityError under the unique index when another row holds
\* (p, c), and the handler of line 644 reports it.
UpdateCandidate(i, p, c) ==
    /\ adminOps < MaxAdminOps
    /\ adminOps' = adminOps + 1
    /\ i \in DOMAIN candidates
    /\ candidates' =
         IF \E j \in DOMAIN candidates \ {i} : candidates[j] = Cand(p, c)
         THEN candidates
         ELSE [candidates EXCEPT ![i] = Cand(p, c)]
    /\ UNCHANGED <<now, meta, voters, votes, ballot, pc, pending, last,
                   bid, nballots>>
    /\ UNCHANGED adminVars

\* imp.drop_duplicates([pcol, ccol], keep="last") (line 586).
RECURSIVE drop_duplicates(_)
drop_duplicates(rows) ==
    IF rows = <<>> THEN <<>>
    ELSE IF \E j \in 2..Len(rows) : rows[j] = Head(rows)
         THEN drop_duplicates(Tail(rows))
         ELSE <<Head(rows)>> \o drop_duplicates(Tail(rows))

\* Upload of a candidates CSV (lines 571-599): the table is emptied and
\* refilled with the lines of the file.
CandidatesCsvReplace(csv) ==
    /\ adminOps < MaxAdminOps
    /\ adminOps' = adminOps + 1
    /\ candidates' = drop_duplicates(csv)
    /\ UNCHANGED <<now, meta, voters, votes, ballot, pc, pending, last,
                   bid, nballots>>
    /\ UNCHANGED adminVars

\* token_exists(tok, exclude_id) (lines 279-282), the excluded row being
\* row i: SELECT 1 FROM voters WHERE TRIM(token)=TRIM(?) AND id<>?
token_exists_exclude(vs, tok, i) ==
    LET t == Strip(tok)
    IN  IF t = <<>> THEN FALSE
        ELSE \E j \in DOMAIN vs \ {i} : Strip(vs[j].token) = Strip(t)

\* "Save changes" of the voters editor with the token cell of row i edited
\* to tok (lines 725-738): UPDATE voters SET name=?, email=?, token=? for
\* every row shown, the other rows written back as they are.
UpdateVoter(i, tok) ==
    /\ adminOps < MaxAdminOps
    /\ adminOps' = adminOps + 1
    /\ i \in DOMAIN voters
    /\ LET t == Strip(tok)
       IN  \E new \in IF t = <<>> \/ token_exists_exclude(voters, t, i)
                      THEN create_unique_token(voters, auto_pref)
                      ELSE {t} :
               voters' = [voters EXCEPT ![i].token = new]
    /\ UNCHANGED <<now, meta, candidates, votes, ballot, pc, pending, last,
                   bid, nballots>>
    /\ UNCHANGED adminVars

\* Set & Schedule (lines 493-505) with the picked start and end.
Schedule(start_dt, end_dt) ==
    /\ adminOps < MaxAdminOps
    /\ adminOps' = adminOps + 1
    /\ meta' = IF end_dt <= start_dt THEN meta
               ELSE IF end_dt <= now THEN meta
               ELSE [meta EXCEPT !.start_cet = isoformat(start_dt),
                                 !.end_cet = isoformat(end_dt),
                                 !.status = "scheduled",
                                 !.published = "FALSE"]
    /\ UNCHANGED <<now, voters, candidates, votes, ballot, pc, pending, last,
                   bid, nballots>>
    /\ UNCHANGED adminVars

\* Start Now keeping the stored end whenever one is stored, passed or not.
StartNow_keep_end ==
    /\ adminOps < MaxAdminOps
    /\ adminOps' = adminOps + 1
    /\ LET start_now == now
           end_read == fromisoformat(meta.end_cet)
           end_kept == IF end_read = <<>>
                       THEN FloorMinute(start_now + TwoHours)
                       ELSE end_read[1]
       IN  meta' = [meta EXCEPT !.start_cet = isoformat(start_now),
                                !.end_cet = isoformat(end_kept),
                                !.status = "ongoing"]
    /\ UNCHANGED <<now, voters, candidates, votes, ballot, pc, pending, last,
                   bid, nballots>>
    /\ UNCHANGED adminVars

\* Start Now writing published = FALSE as Set & Schedule does.
StartNow_unpublish ==
    /\ adminOps < MaxAdminOps
    /\ adminOps' = adminOps + 1
    /\ LET start_now == now
           end_read == fromisoformat(meta.end_cet)
           end_kept == IF end_read = <<>> \/ end_read[1] <= start_now
                       THEN FloorMinute(start_now + TwoHours)
                       ELSE end_read[1]
       IN  meta' = [meta EXCEPT !.start_cet = isoformat(start_now),
                                !.end_cet = isoformat(end_kept),
                                !.status = "ongoing",
                                !.published = "FALSE"]
    /\ UNCHANGED <<now, voters, candidates, votes, ballot, pc, pending, last,
                   bid, nballots>>
    /\ UNCHANGED adminVars

\* Start Now (lines 508-523).
StartNow ==
    /\ adminOps < MaxAdminOps
    /\ adminOps' = adminOps + 1
    /\ LET start_now == now
           end_read == fromisoformat(meta.end_cet)
           end_kept == IF end_read = <<>> \/ end_read[1] <= start_now
                       THEN FloorMinute(start_now + TwoHours)
                       ELSE end_read[1]
       IN  meta' = [meta EXCEPT !.start_cet = isoformat(start_now),
                                !.end_cet = isoformat(end_kept),
                                !.status = "ongoing"]
    /\ UNCHANGED <<now, voters, candidates, votes, ballot, pc, pending, last,
                   bid, nballots>>
    /\ UNCHANGED adminVars

\* End Now (lines 525-530).
EndNow ==
    /\ adminOps < MaxAdminOps
    /\ adminOps' = adminOps + 1
    /\ meta' = [meta EXCEPT !.end_cet = isoformat(now), !.status = "ended"]
    /\ UNCHANGED <<now, voters, candidates, votes, ballot, pc, pending, last,
                   bid, nballots>>
    /\ UNCHANGED adminVars

\* Publish Results (lines 532-534).
Publish ==
    /\ adminOps < MaxAdminOps
    /\ adminOps' = adminOps + 1
    /\ meta' = [meta EXCEPT !.published = "TRUE", !.status = "ended"]
    /\ UNCHANGED <<now, voters, candidates, votes, ballot, pc, pending, last,
                   bid, nballots>>
    /\ UNCHANGED adminVars

\* UPDATE voters SET used = 0 with used_at left as it is.
reset_voters_flag_only(vs) ==
    [i \in DOMAIN vs |-> [vs[i] EXCEPT !.used = FALSE]]

\* UPDATE voters SET used = 0, used_at = '' (line 546).
reset_voters(vs) ==
    [i \in DOMAIN vs |-> [vs[i] EXCEPT !.used = FALSE, !.used_at = <<>>]]

\* CREATE TABLE IF NOT EXISTS votes_archive_<ts> AS SELECT * FROM votes
\* (line 542): nothing is created, and nothing copied, when a table of that
\* name exists.
create_archive(ar, ts, vt) ==
    IF \E a \in ar : a.ts = ts THEN ar
    ELSE ar \cup {[ts |-> ts, rows |-> vt]}

\* Archive votes & reset voters (lines 539-549); ts is the clock reading
\* written to the second (strftime("%Y%m%dT%H%M%S")).
ArchiveReset ==
    /\ adminOps < MaxAdminOps
    /\ adminOps' = adminOps + 1
    /\ archives' = create_archive(archives, now, votes)
    /\ votes' = <<>>
    /\ voters' = reset_voters(voters)
    /\ UNCHANGED <<now, meta, candidates, ballot, pc, pending, last, bid,
                   nballots, new_tokens, appended>>

\* --------------------------------------------------------- specification
\* The handlers of the voter sessions S.
VoterNext(S) ==
    \/ \E s \in S : Rerun(s)
    \/ \E s \in S, token \in TypedTokens : Proceed(s, token)
    \/ \E s \in S : SubmitAllVotes(s)
    \/ \E s \in S : AppendVote(s)
    \/ \E s \in S : MarkTokenUsed(s)

\* The commands of the admin tab.
AdminNext ==
    \/ \E tok \in AdminTokens : AddVoter(tok)
    \/ \E csv \in VoterCsvFiles : VotersCsvReplace(csv)
    \/ \E p \in Positions, c \in Names : AddCandidate(p, c)
    \/ \E sdt \in ScheduleTimes, edt \in ScheduleTimes : Schedule(sdt, edt)
    \/ StartNow
    \/ EndNow
    \/ Publish

\* One voter session at a time, the admin and the clock.
Next ==
    \/ Tick
    \/ VoterNext({"s1"})
    \/ AdminNext

Spec == Init /\ [][Next]_vars

\* Two voter sessions side by side, the clock, and the admin starting and
\* ending the election.
NextRace ==
    \/ Tick
    \/ VoterNext(Sessions)
    \/ StartNow
    \/ EndNow

SpecRace == Init /\ [][NextRace]_vars

\* meta as Start Now leaves it at clock reading 0, starting from the defaults
\* (lines 508-521).
StartedMeta ==
    [defaults EXCEPT !.status = "ongoing",
                     !.start_cet = isoformat(0),
                     !.end_cet = isoformat(FloorMinute(0 + TwoHours))]

\* The script starts on the database of a running election.
InitArchive ==
    /\ now = 0
    /\ meta = StartedMeta
    /\ \E db \in InitTables :
          /\ voters = db.voters
          /\ candidates = db.candidates
    /\ votes = <<>>
    /\ ballot = [s \in Sessions |-> NoBallot]
    /\ pc = [s \in Sessions |-> "form"]
    /\ pending = [s \in Sessions |-> <<>>]
    /\ last = NoInteraction
    /\ bid = [s \in Sessions |-> 0]
    /\ nballots = 0
    /\ adminOps = 0
    /\ archives = {}
    /\ new_tokens = <<>>
    /\ appended = {}

\* A voter session, the clock, and the admin archiving votes and replacing
\* the voters list while the election runs.
NextArchive ==
    \/ Tick
    \/ VoterNext({"s1"})
    \/ ArchiveReset
    \/ \E csv \in VoterCsvFiles : VotersCsvReplace(csv)

SpecArchive == InitArchive /\ [][NextArchive]_vars

\* The admin commands that write tokens into the voters table.
NextTokens ==
    \/ \E n \in TokenCounts : GenerateTokens(n)
    \/ \E tok \in EditorTokens : AddVoter(tok)
    \/ \E csv \in VoterCsvFiles \cup CaseCsvFiles : VotersCsvReplace(csv)

SpecTokens == Init /\ [][NextTokens]_vars

\* is_voting_open() as a function of meta and the clock alone: meta holds any
\* status and any start and end (unset, or an instant), the clock any reading,
\* and a script run evaluates line 367.
Statuses == {"idle", "scheduled", "ongoing", "ended", "published"}

TimeCells == {<<>>} \cup {<<t>> : t \in 0..MaxTime}

InitOpen ==
    /\ now \in 0..MaxTime
    /\ meta \in [status : Statuses, start_cet : TimeCells,
                 end_cet : TimeCells, published : {"FALSE"}]
    /\ voters = <<>>
    /\ candidates = <<>>
    /\ votes = <<>>
    /\ ballot = [s \in Sessions |-> NoBallot]
    /\ pc = [s \in Sessions |-> "form"]
    /\ pending = [s \in Sessions |-> <<>>]
    /\ last = NoInteraction
    /\ bid = [s \in Sessions |-> 0]
    /\ nballots = 0
    /\ adminOps = 0
    /\ archives = {}
    /\ new_tokens = <<>>
    /\ appended = {}

NextOpen == \E s \in {"s1"} : Rerun(s)

SpecOpen == InitOpen /\ [][NextOpen]_vars

\* Start Now pressed on any meta record at any clock reading, and the script
\* runs of a voter session that evaluate is_voting_open() afterwards.
NextStart ==
    \/ StartNow
    \/ \E s \in {"s1"} : Rerun(s)

SpecStart == InitOpen /\ [][NextStart]_vars

\* A voter session on a running election whose mark_token_used may fail.
NextCommit ==
    \/ Tick
    \/ VoterNext({"s1"})
    \/ \E s \in {"s1"} : MarkTokenUsedFails(s)

SpecCommit == InitArchive /\ [][NextCommit]_vars

\* The admin editing candidates and voters (inline and by CSV upload),
\* generating tokens and archiving, while a voter session votes.
EditNext ==
    \/ \E p \in Positions, c \in Names : AddCandidate(p, c)
    \/ \E i \in DOMAIN candidates, p \in Positions, c \in Names :
          UpdateCandidate(i, p, c)
    \/ \E csv \in CandCsvFiles : CandidatesCsvReplace(csv)
    \/ \E tok \in AdminTokens : AddVoter(tok)
    \/ \E i \in DOMAIN voters, tok \in EditorTokens : UpdateVoter(i, tok)
    \/ \E csv \in VoterCsvFiles : VotersCsvReplace(csv)
    \/ \E n \in {1} : GenerateTokens(n)
    \/ ArchiveReset

\* The clock stands still: no handler of EditNext reads it but the archive,
\* and the election of InitArchive is open at its first reading.
NextEdits ==
    \/ VoterNext({"s1"})
    \/ EditNext

SpecEdits == InitArchive /\ [][NextEdits]_vars

\* ================================================================ claims
\* Some voter row matching token t has used = true.
UsedToken(t) == \E i \in MatchingRows(voters, t) : voters[i].used

\* The selections of a form that leave no position unselected.
Complete(sel) == None \notin Range(sel)

\* C1: at-most-once consumption.  An accepted submission leaves the voter
\* row of its token with used = true, and a submission whose token has been
\* consumed already is rejected: it starts no commit and appends no row.
C1_AtMostOnce ==
    [][\A s \in Sessions :
        /\ MarkTokenUsed(s) =>
              \E i \in MatchingRows(voters', ballot[s].token) : voters'[i].used
        /\ \A sel \in Selections(ballot[s].pos_to_cands) :
              (UsedToken(ballot[s].token) /\ Submit(s, sel)) =>
                  /\ last'.answer \notin {"Committing", "Accepted"}
                  /\ pc'[s] = "form"
                  /\ votes' = votes]_vars

\* C2: the votes table holds at most one row per (voter token, position),
\* the token taken trimmed and without case as the lookup takes it.
C2_OneRowPerVoterPosition ==
    \A i, j \in DOMAIN votes :
        (i # j /\ Upper(Strip(votes[i].token)) = Upper(Strip(votes[j].token)))
            => votes[i].position # votes[j].position

\* C3: idempotent rejection.  Casting a ballot (submitting a fully selected
\* form, and the appends of its commit) with a token whose voter row has
\* used = true answers TokenAlreadyUsed and appends no Vote row.
C3_IdempotentRejection ==
    [][\A s \in Sessions :
        (ballot[s].ready /\ UsedToken(ballot[s].token)) =>
            /\ \A sel \in Selections(ballot[s].pos_to_cands) :
                  (Complete(sel) /\ Submit(s, sel)) =>
                      /\ last'.answer = "TokenAlreadyUsed"
                      /\ pc'[s] = "form"
            /\ ~AppendVote(s)]_vars

\* C4: window enforcement.  While is_voting_open() is false a ballot
\* submission answers VotingClosed and no Vote row is appended, also in a
\* session that passed Proceed while voting was open.
C4_WindowEnforcement ==
    [][\A s \in Sessions :
        ~is_voting_open(meta, now).ret =>
            /\ \A sel \in Selections(ballot[s].pos_to_cands) :
                  (Complete(sel) /\ Submit(s, sel)) =>
                      /\ last'.answer = "VotingClosed"
                      /\ pc'[s] = "form"
            /\ ~AppendVote(s)]_vars

\* The runs of session s that evaluate is_voting_open().
EvaluatesOpen(s) ==
    \/ Rerun(s)
    \/ \E token \in TypedTokens : Proceed(s, token)
    \/ SubmitAllVotes(s)
    \/ MarkTokenUsed(s)

\* C5: auto-close.  With status ongoing and the clock past end_time, the next
\* run that evaluates is_voting_open() leaves status = ended in meta, and the
\* evaluation is false: a plain run shows voting closed and Proceed with a
\* token answers VotingClosed.
C5_AutoClose ==
    [][\A s \in Sessions :
        (/\ meta.status = "ongoing"
         /\ meta.end_cet # <<>>
         /\ now > meta.end_cet[1]
         /\ EvaluatesOpen(s)) =>
            /\ ~is_voting_open(meta, now).ret
            /\ meta'.status = "ended"
            /\ Rerun(s) => last'.answer = "closed"
            /\ \A token \in TypedTokens \ {<<>>} :
                  Proceed(s, token) => last'.answer = "VotingClosed"]_vars

\* C5 witness: a plain run found the election ongoing past its end, answered
\* closed and wrote status = ended.
C5_Witness ==
    /\ last.op = "Rerun"
    /\ last.autoclosed
    /\ last.answer = "closed"
    /\ meta.status = "ended"
    /\ meta.end_cet # <<>>
    /\ now > meta.end_cet[1]

\* C6: is_voting_open() is true exactly when status is ongoing, start_time is
\* unset or not after now, and end_time is unset or not before now.
C6_OpenIff ==
    [][\A s \in Sessions :
        Rerun(s) =>
            (last'.answer = "open" <=>
                /\ meta.status = "ongoing"
                /\ (meta.start_cet = <<>> \/ now >= meta.start_cet[1])
                /\ (meta.end_cet = <<>> \/ now <= meta.end_cet[1]))]_vars

\* C6 witness: the evaluation answered open on both boundaries at once,
\* now = start_time = end_time.
C6_Witness ==
    /\ last.op = "Rerun"
    /\ last.answer = "open"
    /\ meta.start_cet = <<now>>
    /\ meta.end_cet = <<now>>

\* The positions that have a row in the candidates table.
ConfiguredPositions == {candidates[i].position : i \in DOMAIN candidates}

\* The positions of form ptc that selection sel gives a candidate.
SelectedPositions(ptc, sel) ==
    {ptc[i].position : i \in {j \in DOMAIN ptc : sel[j] # None}}

\* C7: completeness gate.  A submitted ballot with no selection for some
\* position configured in the candidates table is rejected with
\* IncompleteBallot naming exactly the missing positions; a ballot with a
\* selection for every configured position is accepted.
C7_CompletenessGate ==
    [][\A s \in Sessions :
        \A sel \in Selections(ballot[s].pos_to_cands) :
            Submit(s, sel) =>
                LET missing == ConfiguredPositions \
                               SelectedPositions(ballot[s].pos_to_cands, sel)
                IN  IF missing # {}
                    THEN /\ last'.answer = "IncompleteBallot"
                         /\ last'.named = missing
                         /\ pc'[s] = "form"
                    ELSE last'.answer = "Committing"]_vars

\* C8: when a ballot is accepted, its Vote rows carry one identical
\* timestamp and used_at of the voter equals it.
C8_OneCommitTimestamp ==
    [][\A s \in Sessions :
        MarkTokenUsed(s) =>
            LET rows == {i \in DOMAIN votes' : votes'[i].bid = bid[s]}
            IN  /\ \A i, j \in rows :
                      votes'[i].timestamp = votes'[j].timestamp
                /\ \A i \in rows :
                      \A k \in MatchingRows(voters', ballot[s].token) :
                          voters'[k].used_at = votes'[i].timestamp]_vars

\* The number of rows of the votes table with exactly the pair (p, c).
RowsWith(p, c) ==
    Cardinality({i \in DOMAIN votes :
                    votes[i].position = p /\ votes[i].candidate = c})

\* C9: tally correctness.  For every (position, candidate) the tally of
\* results_df is the number of Vote rows with exactly that pair, and a pair
\* with no row does not appear.
C9_TallyCorrect ==
    LET r == results_df(votes)
    IN  /\ DOMAIN r \subseteq Positions \X Names
        /\ \A p \in Positions, c \in Names :
              IF RowsWith(p, c) = 0 THEN <<p, c>> \notin DOMAIN r
              ELSE <<p, c>> \in DOMAIN r /\ r[<<p, c>>] = RowsWith(p, c)

\* C9 witness: a pair whose tally is 2 beside a pair that has no row.
C9_Witness ==
    /\ \E pr \in DOMAIN results_df(votes) : results_df(votes)[pr] = 2
    /\ \E p \in Positions, c \in Names : RowsWith(p, c) = 0

\* The sum of the tallies r over the pairs S.
RECURSIVE SumTallies(_, _)
SumTallies(r, S) ==
    IF S = {} THEN 0
    ELSE LET x == CHOOSE y \in S : TRUE
         IN  r[x] + SumTallies(r, S \ {x})

\* C10: with no two sessions racing on a token and no commit under way, for
\* every position on the ballots the tallies of its candidates add up to the
\* number of voter rows with used = true, whatever the admin edited.
C10_SumEqualsVoters ==
    LET r == results_df(votes)
    IN  (\A s \in Sessions : pc[s] = "form") =>
            \A p \in {votes[i].position : i \in DOMAIN votes} :
                SumTallies(r, {pr \in DOMAIN r : pr[1] = p}) =
                    Cardinality({k \in DOMAIN voters : voters[k].used})

\* C11: generate_tokens(n, prefix) returns n tokens of the form prefix-X
\* (X drawn from the alphabet) that are pairwise distinct and distinct from
\* every token the voters table held, and each is a new voter row with
\* used = false afterwards, whatever the draws.
C11_GeneratedTokensUnique ==
    [][\A n \in TokenCounts :
        GenerateTokens(n) =>
            /\ Len(new_tokens') = n
            /\ \A i \in DOMAIN new_tokens' :
                  /\ new_tokens'[i] \in RandomTokens(pref)
                  /\ ~TokenIn(voters, new_tokens'[i])
                  /\ \E k \in DOMAIN voters' :
                        /\ k > Len(voters)
                        /\ voters'[k] = NewVoter(new_tokens'[i])
                  /\ \A j \in DOMAIN new_tokens' :
                        i # j => new_tokens'[i] # new_tokens'[j]]_vars

C13_NoVoteLost ==
    \A r \in appended :
        \/ \E i \in DOMAIN votes : votes[i] = r
        \/ \E a \in archives : \E i \in DOMAIN a.rows : a.rows[i] = r

\* C19: every voter row with used = true has used_at set.
C19_UsedHasUsedAt ==
    \A k \in DOMAIN voters : voters[k].used => voters[k].used_at # <<>>

\* C19 witness: after an archive-and-reset a voter row is used again, with
\* used_at set.
C19_Witness ==
    /\ archives # {}
    /\ \E k \in DOMAIN voters : voters[k].used /\ voters[k].used_at # <<>>

\* C14: once status is ended, no step moves the election to ongoing.
C14_NoReturnToOngoing ==
    [][meta.status = "ended" => meta'.status # "ongoing"]_vars

\* Set & Schedule with this start and end passes the validation: the end is
\* after the start and not in the past.
ValidSchedule(start_dt, end_dt) == end_dt > start_dt /\ end_dt > now

\* C15: Set & Schedule takes effect only when its validation passes, leaves
\* the whole meta record unchanged when it fails, and never turns an ongoing
\* election into a scheduled one.
C15_ScheduleValidated ==
    [][\A start_dt \in ScheduleTimes, end_dt \in ScheduleTimes :
        Schedule(start_dt, end_dt) =>
            /\ meta' # meta => ValidSchedule(start_dt, end_dt)
            /\ ~ValidSchedule(start_dt, end_dt) => meta' = meta
            /\ meta.status = "ongoing" => meta'.status # "scheduled"]_vars

\* C16 as stated: once published is TRUE no step changes it back.
C16_PublishedStays ==
    [][meta.published = "TRUE" => meta'.published = "TRUE"]_vars

\* C16 amended: once published is TRUE, the only step that changes it is a
\* Set & Schedule that passes its validation, which schedules an election
\* and writes published = FALSE.
C16_PublishedUntilSchedule ==
    [][(meta.published = "TRUE" /\ meta'.published # "TRUE") =>
          /\ meta'.published = "FALSE"
          /\ meta'.status = "scheduled"
          /\ \E start_dt \in ScheduleTimes, end_dt \in ScheduleTimes :
                Schedule(start_dt, end_dt) /\ ValidSchedule(start_dt, end_dt)
      ]_vars

\* C16 witness: results were published and a later Start Now left the flag.
C16_Witness ==
    /\ meta.published = "TRUE"
    /\ meta.status = "ongoing"

\* C17: Proceed with a non-empty token answers by the first failing check in
\* the order window, lookup, used, candidates; when none fails the ballot is
\* presented with every position that has a candidate row.
C17_ProceedOrder ==
    [][\A s \in Sessions : \A token \in TypedTokens \ {<<>>} :
        Proceed(s, token) =>
            LET open == is_voting_open(meta, now).ret
                known == MatchingRows(voters, token) # {}
                used == UsedToken(token)
                shown == {ballot'[s].pos_to_cands[i].position :
                             i \in DOMAIN ballot'[s].pos_to_cands}
            IN  /\ ~open => last'.answer = "VotingClosed"
                /\ (open /\ ~known) => last'.answer = "InvalidToken"
                /\ (open /\ known /\ used) =>
                      last'.answer = "TokenAlreadyUsed"
                /\ (open /\ known /\ ~used /\ candidates = <<>>) =>
                      last'.answer = "NoCandidatesConfigured"
                /\ (open /\ known /\ ~used /\ candidates # <<>>) =>
                      /\ last'.answer = "BallotReady"
                      /\ ballot'[s].ready
                      /\ shown = ConfiguredPositions
                /\ last'.answer # "BallotReady" => ballot' = ballot]_vars

\* C17 witness: Proceed answered VotingClosed although every token the voter
\* can type fails a later check as well (its row is used, or it has no row).
C17_Witness ==
    /\ last.op = "Proceed"
    /\ last.answer = "VotingClosed"
    /\ \E k \in DOMAIN voters : voters[k].used
    /\ \A token \in TypedTokens \ {<<>>} :
          MatchingRows(voters, token) = {} \/ UsedToken(token)

\* C18: no two voter rows hold tokens that are equal once trimmed and taken
\* without case, so the lookup of Proceed and the UPDATE of the commit
\* select one and the same single row.
C18_CanonicalUnique ==
    \A i, j \in DOMAIN voters :
        i # j => Upper(Strip(voters[i].token)) # Upper(Strip(voters[j].token))

\* The end Start Now is to store when the default is now + 2 hours exactly.
StoredOrTwoHours ==
    IF meta.end_cet # <<>> /\ meta.end_cet[1] > now THEN meta.end_cet
    ELSE <<now + TwoHours>>

\* The end Start Now is to store when the default is now + 2 hours cut to
\* the whole minute.
StoredOrTwoHoursFloor ==
    IF meta.end_cet # <<>> /\ meta.end_cet[1] > now THEN meta.end_cet
    ELSE <<FloorMinute(now + TwoHours)>>

\* C20 as stated: Start Now from any meta state leaves status = ongoing,
\* start_time = now and end_time after now (the stored end when it is later
\* than now, otherwise now + 2 hours), and is_voting_open() is true right
\* afterwards.
C20_StartNowTwoHours ==
    [][StartNow =>
          /\ meta'.status = "ongoing"
          /\ meta'.start_cet = <<now>>
          /\ meta'.end_cet # <<>> /\ meta'.end_cet[1] > now
          /\ meta'.end_cet = StoredOrTwoHours
          /\ is_voting_open(meta', now').ret]_vars

\* C20 amended: the same, the default end being now + 2 hours cut to the
\* whole minute.
C20_StartNowFloorMinute ==
    [][StartNow =>
          /\ meta'.status = "ongoing"
          /\ meta'.start_cet = <<now>>
          /\ meta'.end_cet # <<>> /\ meta'.end_cet[1] > now
          /\ meta'.end_cet = StoredOrTwoHoursFloor
          /\ is_voting_open(meta', now').ret]_vars

\* C20 witness: Start Now stored the default end, which is not now + 2 hours
\* to the second, and the run that followed found voting open.
C20_Witness ==
    /\ adminOps > 0
    /\ meta.status = "ongoing"
    /\ meta.start_cet = <<now>>
    /\ meta.end_cet = <<FloorMinute(now + TwoHours)>>
    /\ FloorMinute(now + TwoHours) # now + TwoHours
    /\ last.op = "Rerun"
    /\ last.answer = "open"

\* C21: an accepted submission clears the ballot state of its session
\* (ready false, no token, no candidate snapshot) and shows the token input
\* again; a session whose ballot is not ready neither starts a commit nor
\* appends a vote row, and a ballot becomes ready only by a Proceed that
\* answered with the ballot.
C21_BallotCleared ==
    [][\A s \in Sessions :
          /\ MarkTokenUsed(s) =>
                /\ ballot'[s] = NoBallot
                /\ pc'[s] = "form"
          /\ ~ballot[s].ready =>
                /\ pc'[s] = "form"
                /\ pending'[s] = pending[s]
                /\ \A i \in DOMAIN votes' \ DOMAIN votes :
                      votes'[i].bid # bid[s]
          /\ (~ballot[s].ready /\ ballot'[s].ready) =>
                /\ last'.op = "Proceed"
                /\ last'.sid = s
                /\ last'.answer = "BallotReady"]_vars

\* An accepted submission has happened and left its session without ballot.
C21_Witness ==
    /\ last.op = "Submit"
    /\ last.answer = "Accepted"
    /\ votes # <<>>
    /\ ballot[last.sid] = NoBallot

Rejections ==
    {"VotingClosed", "InvalidToken", "TokenAlreadyUsed",
     "NoCandidatesConfigured", "IncompleteBallot"}

\* C23: a rejected Proceed or Submit leaves the votes, voters and candidates
\* tables (and the archives) as they were and starts no commit; of the meta
\* record it changes at most the status, from ongoing to ended.
C23_RejectionFrame ==
    [][\A s \in Sessions :
          ( /\ \/ \E token \in TypedTokens : Proceed(s, token)
               \/ SubmitAllVotes(s)
            /\ last'.answer \in Rejections )
          => /\ votes' = votes
             /\ voters' = voters
             /\ candidates' = candidates
             /\ archives' = archives
             /\ pc' = pc
             /\ pending' = pending
             /\ \/ meta' = meta
                \/ /\ meta.status = "ongoing"
                   /\ meta' = [meta EXCEPT !.status = "ended"]]_vars

\* A Proceed was rejected with VotingClosed by the run that closed the
\* election, with voters and candidates configured.
C23_Witness ==
    /\ last.op = "Proceed"
    /\ last.answer = "VotingClosed"
    /\ last.autoclosed
    /\ meta.status = "ended"
    /\ voters # <<>>
    /\ candidates # <<>>

\* C24: vote rows are append-only.  Every step that is not an
\* archive-and-reset leaves each row of the votes table where and as it was,
\* and the edits of candidates and voters (inline or by CSV upload) and the
\* token generation leave the whole table as it was.
C24_VotesAppendOnly ==
    [][/\ ~ArchiveReset =>
             \A k \in DOMAIN votes :
                 k \in DOMAIN votes' /\ votes'[k] = votes[k]
       /\ (adminOps' # adminOps /\ ~ArchiveReset) => votes' = votes]_vars

\* The votes table holds a row whose (position, candidate) is no longer a
\* row of the candidates table, and a voter row was replaced or edited since.
C24_Witness ==
    /\ \E k \in DOMAIN votes :
          \A i \in DOMAIN candidates :
             candidates[i] # Cand(votes[k].position, votes[k].candidate)
    /\ \E k \in DOMAIN votes : ~UsedToken(votes[k].token)
    /\ archives = {}
    /\ pc["s1"] = "form"
    /\ pending["s1"] = <<>>
    /\ adminOps = MaxAdminOps

\* C25: in every reachable state a published election has status ended.
C25_PublishedImpliesEnded ==
    meta.published = "TRUE" => meta.status = "ended"

\* The (position, candidate) pairs of a snapshot.
SnapshotPairs(ptc) ==
    UNION {{Cand(ptc[i].position, ptc[i].options[j]) :
               j \in DOMAIN ptc[i].options} : i \in DOMAIN ptc}

\* C26: the snapshot a Proceed stores is the candidates table of that
\* moment, one entry per position; no admin operation changes the snapshot
\* or the rows a running commit has still to append; every row a session
\* appends is a pair of its snapshot, and when the token is marked the
\* ballot has appended exactly one row for each position of the snapshot
\* and none for any other position.
C26_SnapshotBallot ==
    [][\A s \in Sessions :
          LET ptc == ballot[s].pos_to_cands
          IN  /\ ( /\ \E token \in TypedTokens : Proceed(s, token)
                   /\ last'.answer = "BallotReady" )
                 => /\ SnapshotPairs(ballot'[s].pos_to_cands)
                         = Range(candidates)
                    /\ \A i, j \in DOMAIN ballot'[s].pos_to_cands :
                          ballot'[s].pos_to_cands[i].position
                            = ballot'[s].pos_to_cands[j].position => i = j
              /\ adminOps' # adminOps =>
                    /\ ballot' = ballot
                    /\ pending' = pending
              /\ AppendVote(s) =>
                    LET r == votes'[Len(votes')]
                    IN  /\ r.bid = bid[s]
                        /\ Cand(r.position, r.candidate) \in SnapshotPairs(ptc)
              /\ MarkTokenUsed(s) =>
                    /\ \A i \in DOMAIN ptc :
                          Cardinality({r \in appended :
                                          /\ r.bid = bid[s]
                                          /\ r.position = ptc[i].position}) = 1
                    /\ \A r \in appended :
                          r.bid = bid[s] =>
                             \E i \in DOMAIN ptc : r.position = ptc[i].position
      ]_vars

\* A commit is under way on a snapshot the admin has changed since the
\* Proceed: a row of the ballot is appended, the next row to append is a
\* pair the candidates table no longer holds.
C26_Witness ==
    /\ pc["s1"] = "commit"
    /\ pending["s1"] # <<>>
    /\ \E k \in DOMAIN votes : votes[k].bid = bid["s1"]
    /\ Cand(Head(pending["s1"]).position, Head(pending["s1"]).candidate)
          \notin Range(candidates)
    /\ SnapshotPairs(ballot["s1"].pos_to_cands) # Range(candidates)

====
